---- MODULE Spec2Model ----
(***************************************************************************)
(* Model of the MX Master 4 device layer (src/src/mx_master_4.py): the     *)
(* protocol session (MXMaster4.__enter__/__exit__/write/haptic/hidpp/read) *)
(* driven by a caller that uses it inside a `with` block, and the device   *)
(* selector MXMaster4.find; and of the tray application (src/src/watch.py) *)
(* whose listener thread calls haptic on the session the main thread owns. *)
(* Bytes are naturals in 0..255 and a frame is a sequence of bytes.        *)
(***************************************************************************)
EXTENDS Integers, Sequences, FiniteSets, TLC

VARIABLES
    device_idx,      \* MXMaster4.device_idx
    is_bluetooth,    \* MXMaster4.is_bluetooth
    device,          \* MXMaster4.device: 0 is None, else the index in handles
    handles,         \* per acquired hid.Device: the number of close() calls on it
    pc,              \* the caller's position: outside / ready / reading / raised
    call,            \* the operation in progress or last finished, with its inputs
    writes,          \* frames handed to device.write during that operation
    inbound,         \* frames device.read returned during that operation
    reads,           \* number of device.read calls during that operation
    result,          \* what the operation returned or raised
    exc_type,        \* the exc_type __exit__ received for the last block ("None" if none)
    devices,         \* the snapshot hid.enumerate returns
    prefer_bluetooth,\* the argument of find
    found,           \* what find returned
    vibration_id,    \* NotificationTrayApp.vibration_id
    listening,       \* NotificationTrayApp.listening
    stop_event,      \* NotificationTrayApp._stop_event is set
    thread,          \* NotificationTrayApp._thread: "None" or "Thread"
    dbus_process,    \* NotificationTrayApp._dbus_process: None / running / terminated
    tray,            \* position of the main thread, which runs the tray callbacks
    listener,        \* position of the thread running _monitor_notifications
    line,            \* the line the listener is handling or has skipped last
    logged,          \* what the listener logged last about a haptic call
    inflight,        \* the threads that are inside device.haptic
    started          \* number of Thread.start() calls

vars == <<device_idx, is_bluetooth, device, handles, pc, call, writes, inbound,
          reads, result, exc_type, devices, prefer_bluetooth, found,
          vibration_id, listening, stop_event, thread, dbus_process, tray,
          listener, line, logged, inflight, started>>

sessionVars == <<device_idx, is_bluetooth, device, handles, pc, call, writes,
                 inbound, reads, result, exc_type>>

findVars == <<devices, prefer_bluetooth, found>>

appVars == <<vibration_id, listening, stop_event, thread, dbus_process, tray,
             listener, line, logged, inflight, started>>

-----------------------------------------------------------------------------
(* Bounds of the model *)

\* arguments of hidpp have 0..MaxArgs bytes (one more than the 16 the code admits)
MaxArgs == 17

\* how many times the caller enters the `with` scope
MaxOpens == 2

\* nested activations of read() the interpreter's stack admits (CPython's
\* default is 1000 frames; scaled down)
RecursionLimit == 3

-----------------------------------------------------------------------------
(* Constants of the program *)

BUS_USB == 3
BUS_BLUETOOTH == 5
USAGE_PAGE_HIDPP == 65280
WEBHID_REPORT_ID == 17
WEBHID_REPORT_LENGTH == 19
WEBHID_DEVICE_INDEX == 2
ReportID_Short == 16
ReportID_Long == 17
FunctionID_IFeatureSet == 1
FunctionID_Haptic == 2894

\* Python's None where an integer is expected
NoneInt == -1

-----------------------------------------------------------------------------
(* Pure helpers of the session *)

IsByte(b) == b \in 0..255

Zeros(n) == [i \in 1..n |-> 0]

\* len(args) > 16
TooManyArgs_off(args) == Len(args) > 17
TooManyArgs(args) == Len(args) > 16

\* data = bytes(args); if len(data) < 3: data += bytes([0]) * (3 - len(data))
PadData(args) == IF Len(args) < 3 THEN args \o Zeros(3 - Len(args)) ELSE args

\* report_id = ReportID.Short if len(data) == 3 else ReportID.Long
ReportIdFor(data) == IF Len(data) = 3 THEN ReportID_Short ELSE ReportID_Long

\* struct.pack(">BBH3s", ...): "3s" packs exactly 3 bytes, truncating a longer
\* string and null-padding a shorter one; ">H" is big-endian
pack_le(report_id, idx, feature_idx, data) ==
    <<report_id, idx, feature_idx % 256, feature_idx \div 256>>
        \o [i \in 1..3 |-> IF i <= Len(data) THEN data[i] ELSE 0]
pack(report_id, idx, feature_idx, data) ==
    <<report_id, idx, feature_idx \div 256, feature_idx % 256>>
        \o [i \in 1..3 |-> IF i <= Len(data) THEN data[i] ELSE 0]

\* struct.unpack(">BBH", response[:4])
unpack(response) ==
    [report_id  |-> response[1],
     device_idx |-> response[2],
     f_idx      |-> response[3] * 256 + response[4]]

\* response[4:]
Tail4(response) == SubSeq(response, 5, Len(response))

\* the report _webhid_haptic builds
webhid_report_own(pattern_id, idx) ==
    <<WEBHID_REPORT_ID>>
        \o [i \in 1..WEBHID_REPORT_LENGTH |->
              CASE i = 1 -> idx
                [] i = 2 -> (FunctionID_Haptic \div 256) % 256
                [] i = 3 -> FunctionID_Haptic % 256
                [] i = 4 -> pattern_id
                [] OTHER -> 0]
webhid_report(pattern_id, idx) ==
    <<WEBHID_REPORT_ID>>
        \o [i \in 1..WEBHID_REPORT_LENGTH |->
              CASE i = 1 -> WEBHID_DEVICE_INDEX
                [] i = 2 -> (FunctionID_Haptic \div 256) % 256
                [] i = 3 -> FunctionID_Haptic % 256
                [] i = 4 -> pattern_id
                [] OTHER -> 0]

Returned(f_idx, data) ==
    [kind |-> "returned", err |-> "", f_idx |-> f_idx, data |-> data]
Raised(err) ==
    [kind |-> "raised", err |-> err, f_idx |-> NoneInt, data |-> <<>>]
NoResult ==
    [kind |-> "none", err |-> "", f_idx |-> NoneInt, data |-> <<>>]
Retry ==
    [kind |-> "retry", err |-> "", f_idx |-> NoneInt, data |-> <<>>]

\* one activation of read() on the bytes device.read returned, at nesting
\* `depth` (1 for the call made by hidpp)
read_nocheck(response, idx, depth) ==
    IF Len(response) < 4 THEN Raised("struct.error")
    ELSE LET h == unpack(response) IN
         IF h.device_idx # idx
         THEN IF depth >= RecursionLimit THEN Raised("RecursionError") ELSE Retry
         ELSE IF h.report_id \in {ReportID_Short, ReportID_Long}
              THEN Returned(h.f_idx, Tail4(response))
              ELSE Raised("Unknown report ID")
read(response, idx, depth) ==
    IF Len(response) < 4 THEN Raised("struct.error")
    ELSE LET h == unpack(response) IN
         IF h.device_idx # idx
         THEN IF depth >= RecursionLimit THEN Raised("RecursionError") ELSE Retry
         ELSE IF h.report_id = ReportID_Short
         THEN IF Len(Tail4(response)) # 7 - 4
              THEN Raised("Wrong short report length")
              ELSE Returned(h.f_idx, Tail4(response))
         ELSE IF h.report_id = ReportID_Long
         THEN IF Len(Tail4(response)) # 20 - 4
              THEN Raised("Wrong long report length")
              ELSE Returned(h.f_idx, Tail4(response))
         ELSE Raised("Unknown report ID")

-----------------------------------------------------------------------------
(* Inputs *)

DeviceIdxs == {0, 1, 255}

\* args of n bytes, all different and none zero: 5, 6, 7, ...
Ramp(n) == [i \in 1..n |-> 4 + i]

ArgLists == {Ramp(n) : n \in 0..MaxArgs}

HidppCalls ==
    {<<FunctionID_Haptic, a>> : a \in ArgLists}
        \cup {<<f, <<3>>>> : f \in {FunctionID_Haptic, FunctionID_IFeatureSet, 65280}}

PatternIds == {-1, 0, 7, 255, 256}

\* a sibling logical interface on the same HID node
OtherIdx(idx) == IF idx = WEBHID_DEVICE_INDEX THEN 1 ELSE WEBHID_DEVICE_INDEX

RespPayload == [i \in 1..16 |-> 160 + i]

Frame(report_id, idx, f_idx, len) ==
    SubSeq(<<report_id, idx, f_idx \div 256, f_idx % 256>> \o RespPayload, 1, len)

\* what device.read(20) may return: frames for this session of every report
\* id and length class, frames for a sibling index, and reads too short to
\* hold a header
Responses(idx) ==
    {Frame(r, idx, f, n) : r \in {ReportID_Short, ReportID_Long, 18},
                           f \in {FunctionID_Haptic, FunctionID_IFeatureSet},
                           n \in {4, 7, 8, 20}}
        \cup {Frame(ReportID_Short, OtherIdx(idx), FunctionID_Haptic, 7),
              Frame(18, OtherIdx(idx), FunctionID_Haptic, 8)}
        \cup {Frame(ReportID_Short, idx, FunctionID_Haptic, 3),
              Frame(ReportID_Long, OtherIdx(idx), FunctionID_Haptic, 1)}

NoCall == [op |-> "none", feature_idx |-> NoneInt, args |-> <<>>]

-----------------------------------------------------------------------------
(* The session *)

\* MXMaster4.__init__ and the class attribute device = None
InitSession ==
    /\ device_idx \in DeviceIdxs
    /\ is_bluetooth \in BOOLEAN
    /\ device = 0
    /\ handles = <<>>
    /\ pc = "outside"
    /\ call = NoCall
    /\ writes = <<>>
    /\ inbound = <<>>
    /\ reads = 0
    /\ result = NoResult
    /\ exc_type = "None"

\* `with device as dev:` calls __enter__; hid.Device(path=...) may raise, and
\* then the body and __exit__ do not run
Enter ==
    /\ pc = "outside"
    /\ Len(handles) < MaxOpens
    /\ call' = [NoCall EXCEPT !.op = "__enter__"]
    /\ writes' = <<>>
    /\ inbound' = <<>>
    /\ reads' = 0
    /\ exc_type' = "None"
    /\ \/ /\ handles' = Append(handles, 0)
          /\ device' = Len(handles) + 1
          /\ pc' = "ready"
          /\ result' = NoResult
       \/ /\ result' = Raised("HIDException")
          /\ UNCHANGED <<handles, device, pc>>
    /\ UNCHANGED <<device_idx, is_bluetooth, findVars, appVars>>

\* __exit__(exc_type, exc_val, exc_tb): self.device.close(), whatever exc_type is
exit_on_success(h, d, exc) == IF exc = "None" THEN [h EXCEPT ![d] = @ + 1] ELSE h
exit(h, d, exc) == [h EXCEPT ![d] = @ + 1]

\* the `with` block ends, normally or by an exception leaving the body
Exit ==
    /\ pc \in {"ready", "raised"}
    /\ device # 0
    /\ exc_type' = IF pc = "raised" THEN result.err ELSE "None"
    /\ handles' = exit(handles, device, exc_type')
    /\ pc' = "outside"
    /\ UNCHANGED <<device_idx, is_bluetooth, device, call, writes, inbound,
                   reads, result, findVars, appVars>>

\* write(data), then what follows it in the caller: `after` is the position
\* reached when the write succeeds.  The platform write may fail.
WriteThen_retry(data, after, value) ==
    IF device = 0
    THEN /\ writes' = <<>>
         /\ result' = Raised("Device not open")
         /\ pc' = "raised"
    ELSE \/ /\ writes' = <<data>>
            /\ result' = value
            /\ pc' = after
         \/ /\ writes' = <<data, data>>
            /\ result' = Raised("HIDException")
            /\ pc' = "raised"
WriteThen(data, after, value) ==
    IF device = 0
    THEN /\ writes' = <<>>
         /\ result' = Raised("Device not open")
         /\ pc' = "raised"
    ELSE /\ writes' = <<data>>
         /\ \/ /\ result' = value
               /\ pc' = after
            \/ /\ result' = Raised("HIDException")
               /\ pc' = "raised"

\* hidpp(feature_idx, *args) up to its blocking read
HidppBody(feature_idx, args) ==
    IF TooManyArgs(args)
    THEN /\ writes' = <<>>
         /\ result' = Raised("Too many arguments")
         /\ pc' = "raised"
    ELSE IF \E i \in 1..Len(args) : ~IsByte(args[i])
    THEN /\ writes' = <<>>
         /\ result' = Raised("ValueError")
         /\ pc' = "raised"
    ELSE LET data == PadData(args)
             report_id == ReportIdFor(data)
             packet == pack(report_id, device_idx, feature_idx, data)
         IN WriteThen(packet, "reading", NoResult)

Hidpp ==
    /\ pc = "ready"
    /\ \E c \in HidppCalls :
         /\ call' = [op |-> "hidpp", feature_idx |-> c[1], args |-> c[2]]
         /\ HidppBody(c[1], c[2])
    /\ inbound' = <<>>
    /\ reads' = 0
    /\ UNCHANGED <<device_idx, is_bluetooth, device, handles, exc_type, findVars, appVars>>

\* _webhid_haptic(pattern_id)
WebhidHaptic(pattern_id) ==
    IF ~(0 <= pattern_id /\ pattern_id <= 255)
    THEN /\ writes' = <<>>
         /\ result' = Raised("Haptic pattern out of range")
         /\ pc' = "raised"
    ELSE WriteThen(webhid_report(pattern_id, device_idx), "ready",
                   Returned(NoneInt, <<>>))

\* haptic(pattern_id): the WebHID report on Bluetooth, hidpp otherwise
haptic_wired(pattern_id) == HidppBody(FunctionID_Haptic, <<pattern_id>>)
haptic(pattern_id) ==
    IF is_bluetooth
    THEN WebhidHaptic(pattern_id)
    ELSE HidppBody(FunctionID_Haptic, <<pattern_id>>)

Haptic ==
    /\ pc = "ready"
    /\ \E p \in PatternIds :
         /\ call' = [op |-> "haptic", feature_idx |-> FunctionID_Haptic,
                     args |-> <<p>>]
         /\ haptic(p)
    /\ inbound' = <<>>
    /\ reads' = 0
    /\ UNCHANGED <<device_idx, is_bluetooth, device, handles, exc_type, findVars, appVars>>

\* one activation of read(): device.read(20) returns `response`
Read ==
    /\ pc = "reading"
    /\ \E response \in Responses(device_idx) :
         LET r == read(response, device_idx, Len(inbound) + 1) IN
         /\ inbound' = Append(inbound, response)
         /\ reads' = reads + 1
         /\ IF r.kind = "retry"
            THEN UNCHANGED <<pc, result>>
            ELSE /\ result' = r
                 /\ pc' = IF r.kind = "returned" THEN "ready" ELSE "raised"
    /\ UNCHANGED <<device_idx, is_bluetooth, device, handles, call, writes,
                   exc_type, findVars, appVars>>

\* device.read(20) raises
ReadFail ==
    /\ pc = "reading"
    /\ reads' = reads + 1
    /\ result' = Raised("HIDException")
    /\ pc' = "raised"
    /\ UNCHANGED <<device_idx, is_bluetooth, device, handles, call, writes,
                   inbound, exc_type, findVars, appVars>>

\* the caller catches the exception inside the block and goes on
Catch ==
    /\ pc = "raised"
    /\ pc' = "ready"
    /\ UNCHANGED <<device_idx, is_bluetooth, device, handles, call, writes,
                   inbound, reads, result, exc_type, findVars, appVars>>

\* the selector is not used while the session runs
InitNoFind ==
    /\ devices = <<>>
    /\ prefer_bluetooth = FALSE
    /\ found = [kind |-> "notcalled", path |-> 0, device_idx |-> 0,
                is_bluetooth |-> FALSE]

\* no tray application runs
InitNoApp ==
    /\ vibration_id = 1
    /\ listening = FALSE
    /\ stop_event = FALSE
    /\ thread = "None"
    /\ dbus_process = "None"
    /\ tray = "main"
    /\ listener = "none"
    /\ line = "none"
    /\ logged = "none"
    /\ inflight = {}
    /\ started = 0

Init == InitSession /\ InitNoFind /\ InitNoApp

Next == Enter \/ Exit \/ Hidpp \/ Haptic \/ Read \/ ReadFail \/ Catch

Spec == Init /\ [][Next]_vars

-----------------------------------------------------------------------------
(* A caller that also calls __exit__ by hand once the block has ended, or   *)
(* on a session it never entered (the API's close)                          *)

\* close() calls a caller may make on one hid.Device
MaxCloses == 2

ExitAgain ==
    /\ pc = "outside"
    /\ call' = [NoCall EXCEPT !.op = "__exit__"]
    /\ IF device = 0
       THEN /\ result' = Raised("AttributeError")
            /\ UNCHANGED handles
       ELSE /\ handles[device] < MaxCloses
            /\ handles' = exit(handles, device, "None")
            /\ result' = NoResult
    /\ UNCHANGED <<device_idx, is_bluetooth, device, pc, writes, inbound, reads,
                   exc_type, findVars, appVars>>

NextClose == Next \/ ExitAgain

SpecClose == Init /\ [][NextClose]_vars

-----------------------------------------------------------------------------
(* A caller that uses a session it never entered: device is still None     *)

Unopened ==
    /\ pc = "outside"
    /\ device = 0
    /\ pc' = "ready"
    /\ UNCHANGED <<device_idx, is_bluetooth, device, handles, call, writes,
                   inbound, reads, result, exc_type, findVars, appVars>>

NextUnopened == Next \/ Unopened

SpecUnopened == Init /\ [][NextUnopened]_vars

-----------------------------------------------------------------------------
(* Properties of the session *)

AllBytes(args) == \A i \in 1..Len(args) : IsByte(args[i])

\* the operation went through hidpp on a wired session with admissible args
WiredCall ==
    /\ ~is_bluetooth
    /\ call.op \in {"hidpp", "haptic"}
    /\ AllBytes(call.args)
    /\ Len(call.args) <= 16

HasHeader(f) == Len(f) >= 4
Addressed(f) == HasHeader(f) /\ f[2] = device_idx
Mismatched(f) == HasHeader(f) /\ f[2] # device_idx

\* C1: every hidpp call on an open wired session writes exactly one frame: 7
\* bytes with report id 0x10 for 0..3 args, 20 bytes with report id 0x11 for
\* 4..16 args.
C1_FrameLength ==
    WiredCall =>
        /\ Len(writes) = 1
        /\ Len(call.args) <= 3 => (Len(writes[1]) = 7 /\ writes[1][1] = 16)
        /\ Len(call.args) > 3 => (Len(writes[1]) = 20 /\ writes[1][1] = 17)

HidppStep == pc = "ready" /\ pc' \in {"reading", "raised"} /\ call'.op = "hidpp"

\* C2: hidpp with more than 16 args raises "Too many arguments" and does no
\* I/O: nothing is written, nothing is read, the session is left as it was.
C2_TooManyArgsNoIO ==
    /\ []((call.op = "hidpp" /\ Len(call.args) > 16) =>
            /\ result = Raised("Too many arguments")
            /\ writes = <<>>
            /\ reads = 0
            /\ inbound = <<>>
            /\ pc # "reading")
    /\ [][(HidppStep /\ Len(call'.args) > 16) =>
            /\ pc' = "raised"
            /\ UNCHANGED <<device_idx, is_bluetooth, device, handles>>]_vars

C2_Witness ==
    /\ call.op = "hidpp"
    /\ Len(call.args) = 17
    /\ pc = "raised"
    /\ result.err = "Too many arguments"

\* C3: the payload of every wired frame written is args followed by zeros only:
\* padded to 3 bytes for up to 3 args, to 16 bytes for 4..16 args, so that no
\* argument byte is lost.
C3_PayloadKeepsArgs ==
    WiredCall =>
        /\ Len(writes) = 1
        /\ Tail4(writes[1]) =
              IF Len(call.args) <= 3
              THEN call.args \o Zeros(3 - Len(call.args))
              ELSE call.args \o Zeros(16 - Len(call.args))

\* C4: the first four bytes of every wired frame written are the report id, the
\* session's device index and the function id high byte then low byte, so that
\* decoding the header gives back the report id, device_idx and feature_idx.
C4_HeaderRoundTrip ==
    (WiredCall /\ writes # <<>>) =>
        LET w == writes[1]
            rid == IF Len(call.args) <= 3 THEN 16 ELSE 17
        IN /\ Len(w) >= 4
           /\ w[1] = rid
           /\ w[2] = device_idx
           /\ w[3] * 256 + w[4] = call.feature_idx
           /\ w[3] \in 0..255 /\ w[4] \in 0..255
           /\ unpack(w) = [report_id |-> rid, device_idx |-> device_idx,
                           f_idx |-> call.feature_idx]

C4_Witness ==
    /\ ~is_bluetooth
    /\ device_idx = 1
    /\ call = [op |-> "hidpp", feature_idx |-> 2894, args |-> <<3>>]
    /\ writes = << <<16, 1, 11, 78, 3, 0, 0>> >>

\* C5: haptic on a Bluetooth session with a pattern id p in 0..255 writes
\* exactly one 20-byte buffer 11 02 0B 4E p 00 x 15, whatever device_idx is,
\* and reads nothing.
C5_WebhidFrame ==
    (is_bluetooth /\ call.op = "haptic" /\ call.args[1] \in 0..255) =>
        /\ writes = << <<17, 2, 11, 78, call.args[1]>> \o Zeros(15) >>
        /\ Len(writes[1]) = 20
        /\ reads = 0
        /\ inbound = <<>>
        /\ pc # "reading"

C5_Witness ==
    /\ is_bluetooth
    /\ device_idx = 255
    /\ call.op = "haptic"
    /\ call.args = <<7>>
    /\ result = Returned(NoneInt, <<>>)
    /\ writes = << <<17, 2, 11, 78, 7>> \o Zeros(15) >>

\* the call ended on the last frame read
EndedOnLastFrame ==
    /\ inbound # <<>>
    /\ reads = Len(inbound)
    /\ pc # "reading"

\* C6: every inbound frame whose device index differs from device_idx is
\* discarded without an error and without being returned, and the frame
\* returned is the first frame of the stream whose device index is device_idx.
C6_IndexFiltering ==
    WiredCall =>
        /\ \A i \in 1..Len(inbound) :
              Mismatched(inbound[i]) => ~(i = Len(inbound) /\ EndedOnLastFrame)
        /\ (result.kind = "returned") =>
              LET n == Len(inbound) IN
              /\ n >= 1
              /\ Addressed(inbound[n])
              /\ \A j \in 1..(n - 1) : ~Addressed(inbound[j])
              /\ result = Returned(unpack(inbound[n]).f_idx, Tail4(inbound[n]))

WrongReportLength == {"Wrong short report length", "Wrong long report length"}

C8_ReleasedOnce ==
    /\ device = Len(handles)
    /\ \A i \in 1..Len(handles) :
          handles[i] = IF pc # "outside" /\ i = device THEN 0 ELSE 1

\* two blocks have ended, the second one by an error a read raised
C8_Witness ==
    /\ pc = "outside"
    /\ handles = <<1, 1>>
    /\ exc_type = "Wrong long report length"
    /\ reads = 1

\* C9: closing a session again (or one whose handle is already released)
\* raises no error and makes no second release of the handle.
C9_CloseIdempotent ==
    /\ \A i \in 1..Len(handles) : handles[i] <= 1
    /\ (call.op = "__exit__" /\ device # 0) => result.kind # "raised"

-----------------------------------------------------------------------------
(* The device selector *)

\* how many interfaces hid.enumerate reports
MaxDevices == 3

\* a Python value of one of the types the HID layer reports in a field
IntVal(n) == [tag |-> "int", n |-> n, s |-> <<>>]
StrVal(s) == [tag |-> "str", n |-> 0, s |-> s]
NoneVal == [tag |-> "none", n |-> 0, s |-> <<>>]

UpperChars == <<"A", "B", "C", "D", "E", "F", "G", "H", "I", "J", "K", "L", "M",
                "N", "O", "P", "Q", "R", "S", "T", "U", "V", "W", "X", "Y", "Z">>
LowerChars == <<"a", "b", "c", "d", "e", "f", "g", "h", "i", "j", "k", "l", "m",
                "n", "o", "p", "q", "r", "s", "t", "u", "v", "w", "x", "y", "z">>

\* str.lower(), on a string given as the sequence of its characters
LowerChar(c) ==
    IF \E i \in 1..26 : UpperChars[i] = c
    THEN LowerChars[CHOOSE i \in 1..26 : UpperChars[i] = c]
    ELSE c
Lower(str) == [i \in 1..Len(str) |-> LowerChar(str[i])]

\* `hint in product`
Contains(hint, str) ==
    \E k \in 0..(Len(str) - Len(hint)) :
        \A j \in 1..Len(hint) : str[k + j] = hint[j]

PRODUCT_HINTS ==
    {<<"m", "x", " ", "m", "a", "s", "t", "e", "r", " ", "4">>,
     <<"m", "x", " ", "m", "a", "s", "t", "e", "r">>}

ProductStrings ==
    {StrVal(<<"M", "X", " ", "M", "a", "s", "t", "e", "r", " ", "4">>),
     StrVal(<<"U", "S", "B", " ", "R", "e", "c", "e", "i", "v", "e", "r">>),
     NoneVal}

UsagePages == {USAGE_PAGE_HIDPP, 1}

\* the bus codes, no bus type, and a bus type reported as a name
BusTypes ==
    {IntVal(BUS_USB), IntVal(BUS_BLUETOOTH), NoneVal,
     StrVal(<<"B", "l", "u", "e", "t", "o", "o", "t", "h">>)}

\* product = (device.get("product_string") or "").lower()
Product(product_string) ==
    IF product_string.tag = "str" THEN Lower(product_string.s) ELSE <<>>

\* any(hint in product for hint in PRODUCT_HINTS), evaluated once for each
\* product string of the enumerations
HintIn ==
    [p \in ProductStrings |-> \E hint \in PRODUCT_HINTS : Contains(hint, Product(p))]

HasHint(d) == HintIn[d.product_string]

\* the filter of find: a device that fails it is skipped
Relevant_both(d) == ~(d.usage_page # USAGE_PAGE_HIDPP \/ ~HasHint(d))
Relevant(d) == ~(d.usage_page # USAGE_PAGE_HIDPP /\ ~HasHint(d))

\* device_idx = device.get("interface_number"), 0 unless an int in 0..0xFF
DeviceIdxOf_off(d) ==
    IF d.interface_number.tag = "int"
       /\ 0 <= d.interface_number.n /\ d.interface_number.n <= 256
    THEN d.interface_number.n
    ELSE 0
DeviceIdxOf(d) ==
    IF d.interface_number.tag = "int"
       /\ 0 <= d.interface_number.n /\ d.interface_number.n <= 255
    THEN d.interface_number.n
    ELSE 0

\* the score find gives a candidate
Score_inverted(d, prefer) ==
    (IF d.usage_page # USAGE_PAGE_HIDPP THEN 2 ELSE 0)
    + (IF HasHint(d) THEN 1 ELSE 0)
    + (IF d.bus_type = IntVal(BUS_BLUETOOTH)
       THEN (IF prefer THEN 2 ELSE 1)
       ELSE IF d.bus_type = IntVal(BUS_USB)
       THEN (IF ~prefer THEN 2 ELSE 1)
       ELSE 0)
Score(d, prefer) ==
    (IF d.usage_page = USAGE_PAGE_HIDPP THEN 2 ELSE 0)
    + (IF HasHint(d) THEN 1 ELSE 0)
    + (IF d.bus_type = IntVal(BUS_BLUETOOTH)
       THEN (IF prefer THEN 2 ELSE 1)
       ELSE IF d.bus_type = IntVal(BUS_USB)
       THEN (IF ~prefer THEN 2 ELSE 1)
       ELSE 0)

\* MXMaster4._is_bluetooth(bus_type)
IsBluetooth(bus_type) ==
    IF bus_type.tag = "str"
    THEN Contains(<<"b", "l", "u", "e", "t", "o", "o", "t", "h">>, Lower(bus_type.s))
    ELSE IF bus_type.tag = "int"
    THEN bus_type.n = BUS_BLUETOOTH
    ELSE FALSE

\* the candidates of find, in enumeration order
RECURSIVE Candidates(_, _)
Candidates(devs, prefer) ==
    IF devs = <<>> THEN <<>>
    ELSE LET n == Len(devs)
             d == devs[n]
             before == Candidates(SubSeq(devs, 1, n - 1), prefer)
         IN IF ~Relevant(d) THEN before
            ELSE Append(before, [score |-> Score(d, prefer), path |-> d.path,
                                 device_idx |-> DeviceIdxOf(d), device |-> d])

\* where list.sort puts an entry among the entries sorted so far
InsertFirstOfEqual(sorted, e) ==
    LET k == Cardinality({j \in 1..Len(sorted) : sorted[j].score > e.score})
    IN SubSeq(sorted, 1, k) \o <<e>> \o SubSeq(sorted, k + 1, Len(sorted))
Insert(sorted, e) ==
    LET k == Cardinality({j \in 1..Len(sorted) : sorted[j].score >= e.score})
    IN SubSeq(sorted, 1, k) \o <<e>> \o SubSeq(sorted, k + 1, Len(sorted))

\* candidates.sort(key=lambda entry: entry[0], reverse=True): a stable sort,
\* entries of equal score keep their order
RECURSIVE SortByScore(_)
SortByScore(cands) ==
    IF cands = <<>> THEN <<>>
    ELSE Insert(SortByScore(SubSeq(cands, 1, Len(cands) - 1)), cands[Len(cands)])

NotCalled == [kind |-> "notcalled", path |-> 0, device_idx |-> 0, is_bluetooth |-> FALSE]
FoundNone == [kind |-> "None", path |-> 0, device_idx |-> 0, is_bluetooth |-> FALSE]

\* find(prefer_bluetooth) on the enumeration devs
find(devs, prefer) ==
    LET candidates == SortByScore(Candidates(devs, prefer)) IN
    IF candidates = <<>> THEN FoundNone
    ELSE [kind |-> "MXMaster4",
          path |-> candidates[1].path,
          device_idx |-> candidates[1].device_idx,
          is_bluetooth |-> IsBluetooth(candidates[1].device.bus_type)]

\* interface numbers by position: the ones a descriptor can carry, or the
\* ones the HID layer reports when it has none
ReportedInterface(i) == IntVal(CASE i = 1 -> 0 [] i = 2 -> 255 [] OTHER -> i)
UnusableInterface(i) == CASE i = 1 -> IntVal(-1) [] i = 2 -> NoneVal [] OTHER -> IntVal(256)

\* a session object that is not used while the selector runs
InitIdle ==
    /\ device_idx = 0
    /\ is_bluetooth = FALSE
    /\ device = 0
    /\ handles = <<>>
    /\ pc = "outside"
    /\ call = [op |-> "none", feature_idx |-> NoneInt, args |-> <<>>]
    /\ writes = <<>>
    /\ inbound = <<>>
    /\ reads = 0
    /\ result = NoResult
    /\ exc_type = "None"

\* the enumeration: up to MaxDevices interfaces, the path of each being its
\* position
InitFind ==
    /\ \E n \in 0..MaxDevices :
         \E t \in [1..n -> ProductStrings \X UsagePages \X BusTypes] :
            \E reported \in BOOLEAN :
               devices =
                 [i \in 1..n |->
                    [product_string |-> t[i][1], usage_page |-> t[i][2],
                     bus_type |-> t[i][3],
                     interface_number |-> IF reported THEN ReportedInterface(i)
                                          ELSE UnusableInterface(i),
                     path |-> i]]
    /\ prefer_bluetooth \in BOOLEAN
    /\ found = NotCalled
    /\ InitIdle
    /\ InitNoApp

\* MXMaster4.find(prefer_bluetooth)
Find ==
    /\ found' = find(devices, prefer_bluetooth)
    /\ UNCHANGED <<devices, prefer_bluetooth, sessionVars, appVars>>

NextFind == Find

SpecFind == InitFind /\ [][NextFind]_vars

\* the candidates of the enumeration, by position
CandidateSet == {i \in 1..Len(devices) : Relevant(devices[i])}

\* C10: find returns the descriptor of a candidate whose score is the maximum
\* over the candidates, the first in enumeration order among those of maximum
\* score, so that every call on one enumeration and flag returns the same
\* descriptor.
C10_MaxScoreFirst ==
    (found.kind # "notcalled" /\ CandidateSet # {}) =>
        LET cs == CandidateSet
            sc == [i \in cs |-> Score(devices[i], prefer_bluetooth)]
            best == CHOOSE i \in cs :
                      \A j \in cs : sc[j] < sc[i] \/ (sc[j] = sc[i] /\ i <= j)
        IN /\ found.kind = "MXMaster4"
           /\ found.path = devices[best].path
           /\ found.device_idx = DeviceIdxOf(devices[best])
           /\ found.is_bluetooth = IsBluetooth(devices[best].bus_type)

\* three candidates, the last two sharing the top score: the second is returned
C10_Witness ==
    /\ Len(devices) = 3
    /\ CandidateSet = {1, 2, 3}
    /\ Score(devices[1], prefer_bluetooth) < Score(devices[2], prefer_bluetooth)
    /\ Score(devices[2], prefer_bluetooth) = Score(devices[3], prefer_bluetooth)
    /\ found.kind = "MXMaster4"
    /\ found.path = 2

\* the product name, lower-cased, holds "mx master" ("mx master 4" holds it too)
NamesProduct(d) ==
    /\ d.product_string.tag = "str"
    /\ LET name == d.product_string.s IN
       \E k \in 0..(Len(name) - 9) :
          /\ name[k + 1] \in {"m", "M"} /\ name[k + 2] \in {"x", "X"}
          /\ name[k + 3] = " "
          /\ name[k + 4] \in {"m", "M"} /\ name[k + 5] \in {"a", "A"}
          /\ name[k + 6] \in {"s", "S"} /\ name[k + 7] \in {"t", "T"}
          /\ name[k + 8] \in {"e", "E"} /\ name[k + 9] \in {"r", "R"}

PassesFilter(d) == d.usage_page = 65280 \/ NamesProduct(d)

\* C11: an interface is a candidate of find if and only if its usage page is
\* 0xFF00 or its lower-cased product name holds a known-product substring; an
\* interface matching neither is never selected, and find returns None exactly
\* when no interface passes.
C11_FilterExact ==
    (found.kind # "notcalled") =>
        LET passing == {i \in 1..Len(devices) : PassesFilter(devices[i])}
            cands == Candidates(devices, prefer_bluetooth)
        IN /\ {cands[k].path : k \in 1..Len(cands)} = passing
           /\ Len(cands) = Cardinality(passing)
           /\ (found.kind = "None") <=> (passing = {})
           /\ (found.kind = "MXMaster4") => (found.path \in passing)

\* the first interface matches neither test, the second only by its name
C11_Witness ==
    /\ Len(devices) = 2
    /\ ~PassesFilter(devices[1])
    /\ devices[2].usage_page # 65280
    /\ NamesProduct(devices[2])
    /\ found.kind = "MXMaster4"
    /\ found.path = 2

\* a Bluetooth interface with the proprietary usage page and a known name
FullBluetooth(d) ==
    IsBluetooth(d.bus_type) /\ d.usage_page = 65280 /\ NamesProduct(d)

\* a USB candidate without the proprietary usage page
UsbWithoutPage(d) ==
    d.bus_type = IntVal(3) /\ d.usage_page # 65280 /\ PassesFilter(d)

\* C12: with prefer_bluetooth, a Bluetooth candidate with the proprietary usage
\* page and a known name scores strictly higher than any USB candidate without
\* the usage page, so find does not return that USB candidate when such a
\* Bluetooth candidate is enumerated.
C12_BluetoothOutscoresUsb ==
    (found.kind # "notcalled" /\ prefer_bluetooth) =>
        \A i \in 1..Len(devices) : \A j \in 1..Len(devices) :
            (FullBluetooth(devices[i]) /\ UsbWithoutPage(devices[j])) =>
                /\ Score(devices[j], TRUE) < Score(devices[i], TRUE)
                /\ found.kind = "MXMaster4"
                /\ found.path # j

\* the USB candidate is enumerated first, the Bluetooth one is returned
C12_Witness ==
    /\ prefer_bluetooth
    /\ Len(devices) = 2
    /\ UsbWithoutPage(devices[1])
    /\ FullBluetooth(devices[2])
    /\ devices[2].bus_type = IntVal(5)
    /\ found.kind = "MXMaster4"
    /\ found.path = 2

\* C17: the device index of every descriptor find returns is in 0..255: the
\* interface number reported, when that is an integer in 0..255, and 0 when
\* it is absent, not an integer, negative or above 255; it does not change
\* afterwards.
C17_DeviceIndexRange ==
    /\ [](found.kind = "MXMaster4" =>
            LET reported == devices[found.path].interface_number IN
            /\ found.device_idx \in 0..255
            /\ (reported.tag = "int" /\ reported.n \in 0..255)
                  => found.device_idx = reported.n
            /\ (reported.tag # "int" \/ reported.n < 0 \/ reported.n > 255)
                  => found.device_idx = 0)
    /\ [][found.kind = "MXMaster4" => found'.device_idx = found.device_idx]_vars

\* the interface returned reports 256, the descriptor carries 0
C17_Witness ==
    /\ found.kind = "MXMaster4"
    /\ found.path = 3
    /\ devices[3].interface_number = IntVal(256)
    /\ devices[1].interface_number = IntVal(-1)
    /\ found.device_idx = 0

\* a call that went through write(): hidpp, or haptic on either transport
SendCall == call.op \in {"hidpp", "haptic"}

\* the step that makes a call on the session
CallStep == pc = "ready" /\ call'.op \in {"hidpp", "haptic"} /\ pc' # "outside"

\* C14: in hidpp the write precedes any read and nothing is retried: a call
\* never writes twice and writes exactly once when its arguments are admissible
\* and the device is set; when the write fails (the platform write raises, or
\* the device is not open) the error reaches the caller, no read is made and
\* the frame is not written again.
C14_WriteOnceBeforeRead ==
    /\ [](SendCall =>
            /\ Len(writes) <= 1
            /\ (pc = "reading" \/ reads > 0 \/ inbound # <<>>) => Len(writes) = 1
            /\ (WiredCall /\ device # 0) => Len(writes) = 1
            /\ (result.err = "Device not open") =>
                  (device = 0 /\ writes = <<>> /\ reads = 0 /\ pc # "reading"))
    /\ [][CallStep =>
            /\ reads' = 0
            /\ (device = 0) =>
                  /\ pc' = "raised" /\ writes' = <<>>
                  /\ result'.kind = "raised"
                  /\ (AllBytes(call'.args) /\ Len(call'.args) <= 16) =>
                        result'.err = "Device not open"
            /\ (result'.kind = "raised") => pc' = "raised"]_vars
    /\ [][(pc = "raised" /\ pc' # "outside") => UNCHANGED <<writes, reads, inbound, result>>]_vars
    /\ [][(pc = "reading") => writes' = writes]_vars

\* hidpp on a session that was never opened
C14_Witness ==
    /\ device = 0
    /\ call.op = "hidpp"
    /\ Len(call.args) = 3
    /\ writes = <<>>
    /\ result = Raised("Device not open")
    /\ reads = 0
    /\ pc = "raised"

\* the pattern id passed to haptic
PatternOf(c) == c.args[1]

\* C15: haptic dispatches on is_bluetooth alone, which does not change after
\* construction: a Bluetooth session writes the one 20-byte WebHID report and
\* never reads; any other session makes the hidpp call of function 0x0B4E with
\* the pattern id as its single argument byte, and reads the response once
\* the write has succeeded.
C15_HapticDispatch ==
    /\ []((call.op = "haptic" /\ device # 0 /\ PatternOf(call) \in 0..255) =>
            /\ Len(writes) = 1
            /\ IF is_bluetooth
               THEN /\ Len(writes[1]) = 20
                    /\ SubSeq(writes[1], 1, 5) = <<17, 2, 11, 78, PatternOf(call)>>
                    /\ reads = 0
                    /\ inbound = <<>>
                    /\ pc # "reading"
                    /\ result \in {Returned(NoneInt, <<>>), Raised("HIDException")}
               ELSE /\ writes[1] = <<16, device_idx, 11, 78, PatternOf(call), 0, 0>>
                    /\ \/ pc = "reading"
                       \/ reads >= 1
                       \/ (result = Raised("HIDException") /\ reads = 0))
    /\ [][is_bluetooth' = is_bluetooth]_vars

\* a Bluetooth session has triggered pattern 7
C15_Witness ==
    /\ is_bluetooth
    /\ call.op = "haptic"
    /\ PatternOf(call) = 7
    /\ Len(writes) = 1
    /\ reads = 0
    /\ result.kind = "returned"
    /\ pc = "ready"

\* C16: the discard-and-retry of read is unbounded: however many frames for
\* another index have been discarded, the call has not failed and goes on
\* reading until the frame for device_idx arrives.
C16_DiscardUnbounded ==
    (WiredCall /\ inbound # <<>> /\ reads = Len(inbound)
       /\ \A i \in 1..Len(inbound) : Mismatched(inbound[i])) =>
        (pc = "reading" /\ result.kind # "raised")

\* C18: the frame hidpp returns answers the request just written: the function
\* id it echoes is the feature_idx sent.
C18_EchoMatchesRequest ==
    (WiredCall /\ result.kind = "returned") => result.f_idx = call.feature_idx

-----------------------------------------------------------------------------
(* The tray application (watch.py): main() opens the session and runs the  *)
(* tray on the main thread; NotificationTrayApp starts one daemon thread   *)
(* that reads dbus-monitor and calls haptic.                               *)

\* the patterns the menu offers, range(1, 16): both ends
MenuPatterns == {1, 15}

\* a line of dbus-monitor: one that holds "method call" or "member=Notify",
\* or any other
LineKinds == {"notify", "other"}

Alive == tray # "terminated"

\* args.vibration is checked, find has returned a descriptor
InitApp ==
    /\ InitSession
    /\ InitNoFind
    /\ vibration_id \in MenuPatterns
    /\ listening = FALSE
    /\ stop_event = FALSE
    /\ thread = "None"
    /\ dbus_process = "None"
    /\ tray = "main"
    /\ listener = "none"
    /\ line = "none"
    /\ logged = "none"
    /\ inflight = {}
    /\ started = 0

\* main: `with device as dev:`; when the open raises, the process ends
AppEnter ==
    /\ tray = "main"
    /\ pc = "outside"
    /\ call' = [NoCall EXCEPT !.op = "__enter__"]
    /\ \/ /\ handles' = Append(handles, 0)
          /\ device' = Len(handles) + 1
          /\ pc' = "ready"
          /\ tray' = "with"
          /\ UNCHANGED result
       \/ /\ result' = Raised("HIDException")
          /\ tray' = "terminated"
          /\ UNCHANGED <<handles, device, pc>>
    /\ UNCHANGED <<device_idx, is_bluetooth, writes, inbound, reads, exc_type,
                   findVars, vibration_id, listening, stop_event, thread,
                   dbus_process, listener, line, logged, inflight, started>>

\* NotificationTrayApp.__init__, which ends with _start_listening(): a thread
\* is created and started unless the app is listening already
AppInit ==
    /\ tray = "with"
    /\ tray' = "run"
    /\ IF listening
       THEN UNCHANGED <<listening, stop_event, thread, listener, started>>
       ELSE /\ listening' = TRUE
            /\ stop_event' = FALSE
            /\ thread' = "Thread"
            /\ listener' = "started"
            /\ started' = started + 1
    /\ UNCHANGED <<sessionVars, findVars, vibration_id, dbus_process, line,
                   logged, inflight>>

\* set_vibration(pattern_id), from the menu
SetVibration_preview ==
    /\ tray = "run"
    /\ \E p \in MenuPatterns : vibration_id' = p
    /\ inflight' = inflight \cup {"tray"}
    /\ UNCHANGED <<sessionVars, findVars, listening, stop_event, thread,
                   dbus_process, tray, listener, line, logged, started>>
SetVibration ==
    /\ tray = "run"
    /\ \E p \in MenuPatterns : vibration_id' = p
    /\ UNCHANGED <<sessionVars, findVars, listening, stop_event, thread,
                   dbus_process, tray, listener, line, logged, inflight,
                   started>>

\* exit_app: stop_listening() up to its join
ExitApp ==
    /\ tray = "run"
    /\ IF ~listening
       THEN /\ tray' = "stopped"
            /\ UNCHANGED <<listening, stop_event, dbus_process>>
       ELSE /\ listening' = FALSE
            /\ stop_event' = TRUE
            /\ dbus_process' = IF dbus_process = "running" THEN "terminated"
                               ELSE dbus_process
            /\ tray' = "joining"
    /\ UNCHANGED <<sessionVars, findVars, vibration_id, thread, listener, line,
                   logged, inflight, started>>

\* self._thread.join(timeout=1) returns because the thread has ended; then
\* self._thread = None and icon.stop()
Joined ==
    /\ tray = "joining"
    /\ listener = "done"
    /\ thread' = "None"
    /\ tray' = "stopped"
    /\ UNCHANGED <<sessionVars, findVars, vibration_id, listening, stop_event,
                   dbus_process, listener, line, logged, inflight, started>>

\* the join returns because the second has passed with the thread still alive
JoinTimeout ==
    /\ tray = "joining"
    /\ listener # "done"
    /\ thread' = "None"
    /\ tray' = "stopped"
    /\ UNCHANGED <<sessionVars, findVars, vibration_id, listening, stop_event,
                   dbus_process, listener, line, logged, inflight, started>>

\* icon.run() returns and the `with` block of main ends: __exit__
AppExit ==
    /\ tray = "stopped"
    /\ handles' = exit(handles, device, "None")
    /\ tray' = "closed"
    /\ UNCHANGED <<device_idx, is_bluetooth, device, pc, call, writes, inbound,
                   reads, result, exc_type, findVars, vibration_id, listening,
                   stop_event, thread, dbus_process, listener, line, logged,
                   inflight, started>>

\* main returns and the process ends, the daemon thread with it
ProcessExit ==
    /\ tray = "closed"
    /\ tray' = "terminated"
    /\ UNCHANGED <<sessionVars, findVars, vibration_id, listening, stop_event,
                   thread, dbus_process, listener, line, logged, inflight,
                   started>>

\* _monitor_notifications: subprocess.Popen(dbus-monitor), which may raise
ListenerPopen ==
    /\ Alive
    /\ listener = "started"
    /\ \/ /\ dbus_process' = "running"
          /\ listener' = "waiting"
       \/ /\ listener' = "done"
          /\ UNCHANGED dbus_process
    /\ UNCHANGED <<sessionVars, findVars, vibration_id, listening, stop_event,
                   thread, tray, line, logged, inflight, started>>

\* dbus-monitor ends by itself
DbusExit ==
    /\ Alive
    /\ dbus_process = "running"
    /\ dbus_process' = "terminated"
    /\ UNCHANGED <<sessionVars, findVars, vibration_id, listening, stop_event,
                   thread, tray, listener, line, logged, inflight, started>>

\* the `finally` of _monitor_notifications
Finally ==
    /\ dbus_process' = "None"
    /\ listener' = "done"

\* `for line in stdout`: a line is read; the loop breaks when the stop event
\* is set, and goes on to haptic when the line shows a method call
ListenerLine ==
    /\ Alive
    /\ listener = "waiting"
    /\ dbus_process \in {"running", "terminated"}
    /\ \E k \in LineKinds :
         /\ line' = k
         /\ IF stop_event
            THEN Finally
            ELSE /\ listener' = IF k = "notify" THEN "handling" ELSE "waiting"
                 /\ UNCHANGED dbus_process
    /\ UNCHANGED <<sessionVars, findVars, vibration_id, listening, stop_event,
                   thread, tray, logged, inflight, started>>

\* the pipe of the ended dbus-monitor is drained: the loop ends
ListenerEof ==
    /\ Alive
    /\ listener = "waiting"
    /\ dbus_process = "terminated"
    /\ Finally
    /\ UNCHANGED <<sessionVars, findVars, vibration_id, listening, stop_event,
                   thread, tray, line, logged, inflight, started>>

\* self.device.haptic(self.vibration_id)
ListenerCall ==
    /\ Alive
    /\ listener = "handling"
    /\ call' = [op |-> "haptic", feature_idx |-> FunctionID_Haptic,
                args |-> <<vibration_id>>]
    /\ haptic(vibration_id)
    /\ inbound' = <<>>
    /\ reads' = 0
    /\ listener' = "in_haptic"
    /\ inflight' = inflight \cup {"listener"}
    /\ UNCHANGED <<device_idx, is_bluetooth, device, handles, exc_type, findVars,
                   vibration_id, listening, stop_event, thread, dbus_process,
                   tray, line, logged, started>>

\* the blocking read of the call in progress
AppRead == Alive /\ Read

AppReadFail == Alive /\ ReadFail

\* haptic has returned: logging.info
HapticDone ==
    /\ Alive
    /\ listener = "in_haptic"
    /\ pc = "ready"
    /\ logged' = "triggered"
    /\ listener' = "waiting"
    /\ line' = "none"
    /\ inflight' = inflight \ {"listener"}
    /\ UNCHANGED <<sessionVars, findVars, vibration_id, listening, stop_event,
                   thread, dbus_process, tray, started>>

\* haptic has raised: `except Exception` logs the error and the loop goes on
HapticFailed_unhandled ==
    /\ Alive
    /\ listener = "in_haptic"
    /\ pc = "raised"
    /\ pc' = "ready"
    /\ logged' = "none"
    /\ Finally
    /\ line' = "none"
    /\ inflight' = inflight \ {"listener"}
    /\ UNCHANGED <<device_idx, is_bluetooth, device, handles, call, writes,
                   inbound, reads, result, exc_type, findVars, vibration_id,
                   listening, stop_event, thread, tray, started>>
HapticFailed ==
    /\ Alive
    /\ listener = "in_haptic"
    /\ pc = "raised"
    /\ pc' = "ready"
    /\ logged' = "failed"
    /\ listener' = "waiting"
    /\ line' = "none"
    /\ inflight' = inflight \ {"listener"}
    /\ UNCHANGED <<device_idx, is_bluetooth, device, handles, call, writes,
                   inbound, reads, result, exc_type, findVars, vibration_id,
                   listening, stop_event, thread, dbus_process, tray, started>>

NextApp ==
    \/ AppEnter \/ AppInit \/ SetVibration \/ ExitApp \/ Joined \/ JoinTimeout
    \/ AppExit \/ ProcessExit
    \/ ListenerPopen \/ DbusExit \/ ListenerLine \/ ListenerEof \/ ListenerCall
    \/ AppRead \/ AppReadFail \/ HapticDone \/ HapticFailed

SpecApp == InitApp /\ [][NextApp]_vars

\* the handle of the session has been closed
Released == device # 0 /\ handles[device] > 0

\* C13: at most one request is in flight on the device: whatever the tray
\* thread does (menu selections, exit) while the listener runs, one listener
\* thread at most is started and no two haptic calls overlap; only the
\* listener is ever inside haptic.
C13_OneRequestInFlight ==
    /\ started <= 1
    /\ Cardinality(inflight) <= 1
    /\ inflight \subseteq {"listener"}
    /\ (inflight = {"listener"}) <=> (listener = "in_haptic")
    /\ (pc \in {"reading", "raised"}) => inflight = {"listener"}
    /\ (listener # "none") => started = 1

\* the menu changes the pattern while the listener waits for the response
C13_Witness ==
    /\ tray = "run"
    /\ inflight = {"listener"}
    /\ pc = "reading"
    /\ reads = 1
    /\ vibration_id # PatternOf(call)

\* C19: no write or read is issued on a released handle: however exit (the
\* join with its timeout, icon.stop, the end of the `with` block) interleaves
\* with the listener, no haptic call of the listener starts or is still in
\* progress once the device has been closed.
C19_NoUseAfterClose == (inflight # {}) => ~Released

\* C20: a haptic call that raises does not stop the listener: the error is
\* logged, the thread goes back to reading lines with dbus-monitor and the
\* flags untouched, and every notification line read while the stop event is
\* clear leads to a haptic call with the vibration_id of the moment of the call.
C20_ErrorContained ==
    /\ [][(listener = "in_haptic" /\ pc = "raised" /\ listener' # listener) =>
            /\ listener' = "waiting"
            /\ logged' = "failed"
            /\ inflight' = {}
            /\ UNCHANGED <<listening, stop_event, thread, dbus_process,
                           vibration_id>>]_vars
    /\ [][(line # "notify" /\ line' = "notify" /\ ~stop_event) =>
            (listener = "waiting" /\ listener' = "handling")]_vars
    /\ [][(listener = "handling" /\ listener' # listener) =>
            /\ listener' = "in_haptic"
            /\ call' = [op |-> "haptic", feature_idx |-> 2894,
                        args |-> <<vibration_id>>]
            /\ (~Released /\ ~is_bluetooth) =>
                  writes' = <<<<16, device_idx, 11, 78, vibration_id, 0, 0>>>>
            /\ (~Released /\ is_bluetooth) =>
                  (Len(writes') = 1 /\ writes'[1][5] = vibration_id)]_vars
    /\ []((listener = "done" /\ ~stop_event) => dbus_process # "running")

\* after a failed call the next notification triggers the pattern selected
\* in the meantime
C20_Witness ==
    /\ logged = "failed"
    /\ listener = "in_haptic"
    /\ result.kind # "raised"
    /\ reads = 0
    /\ Len(writes) = 1
    /\ PatternOf(call) = 15
    /\ listening
    /\ ~stop_event

====
